---- MODULE Spec2Model ----
(***************************************************************************)
(* Model of the ADW workflow engine of tac-6:                              *)
(*   - adws/adw_review.py        the review stage and its resolution loop  *)
(*   - adws/adw_document.py      the documentation stage                   *)
(*   - adws/adw_patch.py         the patch stage                           *)
(*   - adws/adw_modules/agent.py the agent invocation adapter              *)
(*   - adws/adw_sdlc.py, adw_plan_build_*.py   the pipeline composers      *)
(*   - app/server/core/csv_exporter.py         sanitize_filename           *)
(* Each is a state machine of its own; a specification runs one of them    *)
(* (Spec, SpecAgent, SpecPipeline, SpecExport) or one of the three stage   *)
(* scripts (SpecStages), and the variables of the machines it does not     *)
(* run stay at their initial values.                                       *)
(***************************************************************************)
EXTENDS Integers, Sequences, FiniteSets, TLC

VARIABLES
    \* ---- adw_review.main ----
    pc,                 \* position in main
    skip_resolution,    \* "--skip-resolution" in sys.argv
    attempt,            \* main's attempt counter
    review_result,      \* the ReviewResult of the latest run_review, or NoResult
    agent_ok,           \* response.success of the latest /review invocation
    blocker_idx,        \* resolve_review_issues: blockers handled so far in this pass
    resolved_count,     \* resolve_review_issues: resolved_count
    failed_count,       \* resolve_review_issues: failed_count
    exit_code,          \* the process's exit status, NotExited while it runs
    exit_by,            \* which sys.exit (or the end of main) ended the process
    loop_end,           \* which break left the retry loop
    review_runs,        \* history: calls of run_review
    resolve_passes,     \* history: calls of resolve_review_issues
    patch_calls,        \* history: calls of create_and_implement_patch
    resolution_commits, \* history: successful commits of resolution changes
    every_blocked,      \* history: every review so far failed with >= 1 blocker
    every_resolved,     \* history: every finished resolution pass resolved >= 1
    calls_at_failure,   \* history: agent calls made when /review first failed, 0 if never
    patching,           \* resolve_review_issues: number of the finding being patched, 0 if none
    attempted,          \* history: the findings patched in the pass after the latest review, in order
    review_log,         \* history: success and blocker count of every review run
    pass_log,           \* history: resolved and failed count of every finished pass
    commit_failed_at,   \* history: review_runs when commit_changes first failed, 0 if never
    final_log,          \* history: the commit, push and save main did after the loop, in order
    last_urls,          \* history: the latest non-empty screenshot_urls of a review, NoUrls if none
    \* ---- what a stage script (adw_review, adw_document, adw_patch) works on ----
    script,             \* the stage script that runs
    disk0,              \* history: the state file as the script found it
    disk,               \* the persisted state file of the adw_id
    state,              \* the ADWState object in memory
    effects,            \* history: the kinds of side effect performed so far
    \* ---- adw_document.main ----
    doc_pc,             \* position in main
    doc_result,         \* the DocumentationResult of generate_documentation
    doc_exit,           \* the process's exit status, NotExited while it runs
    doc_exit_by,        \* which sys.exit ended the process
    doc_agent_calls,    \* history: the agent invocations adw_document made
    \* ---- adw_patch.main ----
    patch_pc,           \* position in main
    patch_file,         \* the patch_file create_and_implement_patch returned
    implement_ok,       \* implement_response.success
    patch_exit,         \* the process's exit status, NotExited while it runs
    patch_exit_by,      \* which sys.exit (or the end of main) ended the process
    patch_issue,        \* the issue fetch_issue returned: where the keyword 'adw_patch' occurs
    change_request,     \* the review_change_request get_patch_content returned
    \* ---- agent.prompt_claude_code ----
    ag_pc,              \* position in prompt_claude_code
    install_check,      \* outcome of check_claude_installed
    prompt_saved,       \* save_prompt wrote the prompt file
    output_written,     \* request.output_file was opened for writing
    launched,           \* subprocess.run started the agent process
    proc,               \* what the agent process does
    response,           \* the AgentPromptResponse returned, or NoResponse
    parent_env,         \* os.environ of the calling process
    child_env,          \* the env passed to the agent process
    \* ---- pipeline composers ----
    variant,            \* which composer script runs
    adw_id_arg,         \* whether an adw-id was given on the command line
    stage_idx,          \* index of the next stage to launch
    running,            \* the stage process now running, or "none"
    launches,           \* history: the stages launched, in order
    last_code,          \* returncode of the stage that exited last
    composer_exit,      \* the composer's exit status, NotExited while it runs
    post_work,          \* finalisation / success summary done by the composer after the stages
    failed,             \* history: the first stage that exited non-zero
    progress,           \* stage progress of the adw_id
    last_transition,    \* history: the latest change of progress, <<from, to>>
    adw_id,             \* the composer's adw_id, "none" before ensure_adw_id
    launch_ids,         \* history: the adw-id argument of every stage launched
    \* ---- csv_exporter.sanitize_filename ----
    export_pc,          \* how often sanitize_filename has been applied
    file_name,          \* the argument name of sanitize_filename
    sanitized,          \* sanitize_filename(name)
    resanitized         \* sanitize_filename(sanitized)

review_vars == <<pc, skip_resolution, attempt, review_result, agent_ok, blocker_idx,
                 resolved_count, failed_count, exit_code, exit_by, loop_end,
                 review_runs, resolve_passes, patch_calls, resolution_commits,
                 every_blocked, every_resolved, calls_at_failure, patching, attempted,
                 review_log, pass_log, commit_failed_at, final_log, last_urls>>
stage_vars == <<script, disk, state, effects, disk0>>
doc_vars == <<doc_pc, doc_result, doc_exit, doc_exit_by, doc_agent_calls>>
patch_vars == <<patch_pc, patch_file, implement_ok, patch_exit, patch_exit_by, patch_issue,
               change_request>>
agent_vars == <<ag_pc, install_check, prompt_saved, output_written, launched, proc,
                response, parent_env, child_env>>
pipeline_vars == <<variant, adw_id_arg, stage_idx, running, launches, last_code,
                   composer_exit, post_work, failed, progress, last_transition,
                   adw_id, launch_ids>>
export_vars == <<export_pc, file_name, sanitized, resanitized>>
vars == <<review_vars, stage_vars, doc_vars, patch_vars, agent_vars, pipeline_vars, export_vars>>

\* ------------------------------------------------------------------------
\* Bounds
\* ------------------------------------------------------------------------
\* the most characters of a file name after its run of letters
MaxTail == 3
\* the most comments an issue has
MaxComments == 2
\* the longest review_issues list a review returns
MaxIssues == 2
\* the most lines the agent process writes to its output file
MaxLines == 2
\* the largest exit status of a stage process
MaxExitCode == 2

\* ------------------------------------------------------------------------
\* adw_review.py
\* ------------------------------------------------------------------------
MAX_REVIEW_RETRY_ATTEMPTS == 3

\* no exit status yet: a value no sys.exit gives
NotExited == 0 - 1
\* no review has had screenshot urls yet
NoUrls == "none"
NoResult == [success |-> FALSE, review_issues |-> <<>>, none |-> TRUE]

Severity == {"blocker", "tech_debt", "skippable"}

\* ReviewIssue: the fields the control flow reads
ReviewIssue(n, sev) == [review_issue_number |-> n, issue_severity |-> sev]

\* the review_issues lists of up to MaxIssues findings, numbered in order
IssueLists ==
    UNION { { [i \in 1..n |-> ReviewIssue(i, sevs[i])] : sevs \in [1..n -> Severity] }
            : n \in 0..MaxIssues }

ReviewResult(success, issues) ==
    [success |-> success, review_issues |-> issues, none |-> FALSE]

\* what parse_json(response.output, ReviewResult) can yield: the agent decides
\* success and the findings independently
ParsedResults == { ReviewResult(s, l) : s \in BOOLEAN, l \in IssueLists }

IsBlocker(i) == i.issue_severity = "blocker"

\* sum(1 for i in review_result.review_issues if i.issue_severity == "blocker")
BlockerCount(result) ==
    Cardinality({ k \in 1..Len(result.review_issues) : IsBlocker(result.review_issues[k]) })

\* blocker_issues = [i for i in review_issues if i.issue_severity == "blocker"]
BlockerIssuesUnfiltered(issues) == issues
BlockerIssues(issues) == SelectSeq(issues, IsBlocker)

\* run_review: a failed invocation or an unparseable output becomes one
\* synthesized blocker
RunReviewResult(resp) ==
    IF resp.kind = "parsed"
    THEN resp.result
    ELSE ReviewResult(FALSE, <<ReviewIssue(1, "blocker")>>)

\* the responses of execute_template as run_review sees them; "raised" is
\* an exception of execute_template (check_claude_installed, save_prompt and
\* os.makedirs run outside any try), which run_review does not catch
ReviewResponses ==
    { [kind |-> "failed", success |-> FALSE, result |-> NoResult],
      [kind |-> "unparseable", success |-> TRUE, result |-> NoResult],
      [kind |-> "raised", success |-> FALSE, result |-> NoResult] }
    \cup { [kind |-> "parsed", success |-> TRUE, result |-> r] : r \in ParsedResults }

\* max_attempts = MAX_REVIEW_RETRY_ATTEMPTS if not skip_resolution else 1
MaxAttemptsMutant(skip) == IF skip THEN 1 ELSE MAX_REVIEW_RETRY_ATTEMPTS + 1
MaxAttempts(skip) == IF skip THEN 1 ELSE MAX_REVIEW_RETRY_ATTEMPTS

max_attempts == MaxAttempts(skip_resolution)

\* if attempt == max_attempts or blocker_count == 0 or skip_resolution: break
StopLoopMutant(att, max, blockers, skip) == att = max \/ skip
StopLoopBlockersOnly(att, max, blockers, skip) == blockers = 0
StopLoop(att, max, blockers, skip) == att = max \/ blockers = 0 \/ skip

\* if resolved_count > 0: commit and re-review; else: break
RetryAfterResolutionMutant(resolved) == resolved >= 0
RetryAfterResolution(resolved) == resolved > 0

\* the exit at the end of main: 1 when the last review failed with blockers
ExitStatusMutant(result) == IF ~result.success THEN 1 ELSE 0
ExitStatusIgnoringSuccess(result) == IF BlockerCount(result) > 0 THEN 1 ELSE 0
ExitStatus(result) == IF ~result.success /\ BlockerCount(result) > 0 THEN 1 ELSE 0

PostLoop == {"after_loop", "final_commit", "finalize", "save", "exit_decision", "exit"}

ReviewInit ==
    /\ pc = "load_state"
    /\ skip_resolution \in BOOLEAN
    /\ attempt = 0
    /\ review_result = NoResult
    /\ agent_ok = TRUE
    /\ blocker_idx = 0
    /\ resolved_count = 0
    /\ failed_count = 0
    /\ exit_code = NotExited
    /\ exit_by = "none"
    /\ loop_end = "none"
    /\ review_runs = 0
    /\ resolve_passes = 0
    /\ patch_calls = 0
    /\ resolution_commits = 0
    /\ every_blocked = TRUE
    /\ every_resolved = TRUE
    /\ calls_at_failure = 0
    /\ patching = 0
    /\ attempted = <<>>
    /\ review_log = <<>>
    /\ pass_log = <<>>
    /\ commit_failed_at = 0
    /\ final_log = <<>>
    /\ last_urls = NoUrls

ReviewIdle ==
    /\ pc = "idle"
    /\ skip_resolution = FALSE
    /\ attempt = 0
    /\ review_result = NoResult
    /\ agent_ok = TRUE
    /\ blocker_idx = 0
    /\ resolved_count = 0
    /\ failed_count = 0
    /\ exit_code = NotExited
    /\ exit_by = "none"
    /\ loop_end = "none"
    /\ review_runs = 0
    /\ resolve_passes = 0
    /\ patch_calls = 0
    /\ resolution_commits = 0
    /\ every_blocked = TRUE
    /\ every_resolved = TRUE
    /\ calls_at_failure = 0
    /\ patching = 0
    /\ attempted = <<>>
    /\ review_log = <<>>
    /\ pass_log = <<>>
    /\ commit_failed_at = 0
    /\ final_log = <<>>
    /\ last_urls = NoUrls

\* ------------------------------------------------------------------------
\* the persisted state of an adw_id, as the stage scripts read and write it
\* ------------------------------------------------------------------------
\* a field of the state: its key is missing, its value is empty, or it is set
Missing == "missing"
Empty == "empty"

\* Python truthiness of state.get(key)
TruthyMutant(v) == v # Missing
Truthy(v) == v \notin {Missing, Empty}

\* ADWState.load found no state file
NoState == [exists |-> FALSE, branch_name |-> Missing, review_screenshots |-> Missing,
            documentation_path |-> Missing, patch_file |-> Missing]

\* the state files an earlier stage can have left behind: none, one of the
\* plan stage with or without a branch name, or one that review, document and
\* patch runs of the same adw_id have already written to
DiskStates ==
    { NoState }
    \cup { [exists |-> TRUE, branch_name |-> b, review_screenshots |-> Missing,
            documentation_path |-> Missing, patch_file |-> Missing] :
             b \in {Missing, Empty, "feat"} }
    \cup { [exists |-> TRUE, branch_name |-> "feat", review_screenshots |-> "urls_0",
            documentation_path |-> "doc_0.md", patch_file |-> "patch_0.md"] }

\* the kinds of side effect a stage script has
GitEffects == {"checkout", "commit", "push"}
Effects == {"comment", "error_comment", "agent", "save"} \cup GitEffects

\* ADWState.load(adw_id, logger): the state file's content, nothing written
ADWStateLoad(d) == d

\* "if state:" after ADWState.load
StateFoundMutant(st) == TRUE
StateFound(st) == st.exists

\* state.update(**kwargs) for one key
StateUpdate(st, key, value) == [st EXCEPT ![key] = value]

StageInit(s) ==
    /\ script = s
    /\ disk \in DiskStates
    /\ state = NoState
    /\ effects = {}
    /\ disk0 = disk

StageIdle ==
    /\ script = "none"
    /\ disk = NoState
    /\ state = NoState
    /\ effects = {}
    /\ disk0 = NoState

\* review_result.screenshot_urls of the n-th review: the empty list, or the
\* list of that review's uploads
UrlsOfAttempt(n) ==
    CASE n = 1 -> "urls_1"
      [] n = 2 -> "urls_2"
      [] OTHER -> "urls_3"
ScreenshotUrlLists(n) == {Empty, UrlsOfAttempt(n)}

\* upload_and_map_screenshots: "if review_result.screenshot_urls:
\* state.update(review_screenshots=review_result.screenshot_urls)"
SavedScreenshotsMutant(st, urls) == StateUpdate(st, "review_screenshots", urls)
SavedScreenshots(st, urls) ==
    IF Truthy(urls) THEN StateUpdate(st, "review_screenshots", urls) ELSE st

\* sys.exit(1) before the retry loop
ExitEarly(why) ==
    /\ pc' = "exit"
    /\ exit_code' = 1
    /\ exit_by' = why

\* a step of main before the retry loop: it passes or exits 1; oks are the
\* outcomes it can have, done_ok / done_fail the side effects of each
PrologueStep(here, next, why, oks, done_ok, done_fail) ==
    /\ pc = here
    /\ UNCHANGED <<agent_vars, pipeline_vars, doc_vars, patch_vars, export_vars>>
    /\ \E ok \in oks :
          IF ok
          THEN /\ pc' = next
               /\ effects' = effects \cup done_ok
               /\ UNCHANGED <<exit_code, exit_by>>
          ELSE /\ ExitEarly(why)
               /\ effects' = effects \cup done_fail

\* state = ADWState.load(adw_id, temp_logger); "if state:" comment, else sys.exit(1)
LoadState ==
    /\ PrologueStep("load_state", "check_env", "no_state", {StateFound(ADWStateLoad(disk))},
                    {"comment"}, {})
    /\ state' = ADWStateLoad(disk)
    /\ UNCHANGED <<skip_resolution, attempt, review_result, agent_ok, blocker_idx,
                   resolved_count, failed_count, loop_end, review_runs, resolve_passes,
                   patch_calls, resolution_commits, every_blocked, every_resolved,
                   calls_at_failure, patching, attempted, review_log, pass_log, commit_failed_at,
                   script, disk0, final_log, last_urls, disk>>

\* check_env_vars(logger)
CheckEnvVars ==
    /\ PrologueStep("check_env", "repo_url", "env", BOOLEAN, {}, {})
    /\ UNCHANGED <<skip_resolution, attempt, review_result, agent_ok, blocker_idx,
                   resolved_count, failed_count, loop_end, review_runs, resolve_passes,
                   patch_calls, resolution_commits, every_blocked, every_resolved,
                   calls_at_failure, patching, attempted, review_log, pass_log, commit_failed_at,
                   script, disk0, final_log, last_urls, disk, state>>

\* get_repo_url() / extract_repo_path(); ValueError: sys.exit(1)
GetRepoUrl ==
    /\ PrologueStep("repo_url", "branch_name", "repo_url", BOOLEAN, {}, {})
    /\ UNCHANGED <<skip_resolution, attempt, review_result, agent_ok, blocker_idx,
                   resolved_count, failed_count, loop_end, review_runs, resolve_passes,
                   patch_calls, resolution_commits, every_blocked, every_resolved,
                   calls_at_failure, patching, attempted, review_log, pass_log, commit_failed_at,
                   script, disk0, final_log, last_urls, disk, state>>

\* if not state.get("branch_name"): error comment, sys.exit(1)
CheckBranchName ==
    /\ PrologueStep("branch_name", "checkout", "no_branch", {Truthy(state.branch_name)},
                    {}, {"error_comment"})
    /\ UNCHANGED <<skip_resolution, attempt, review_result, agent_ok, blocker_idx,
                   resolved_count, failed_count, loop_end, review_runs, resolve_passes,
                   patch_calls, resolution_commits, every_blocked, every_resolved,
                   calls_at_failure, patching, attempted, review_log, pass_log, commit_failed_at,
                   script, disk0, final_log, last_urls, disk, state>>

\* git checkout branch_name; on failure an error comment and sys.exit(1)
CheckoutBranch ==
    /\ PrologueStep("checkout", "find_spec", "checkout", BOOLEAN,
                    {"checkout", "comment"}, {"checkout", "error_comment"})
    /\ UNCHANGED <<skip_resolution, attempt, review_result, agent_ok, blocker_idx,
                   resolved_count, failed_count, loop_end, review_runs, resolve_passes,
                   patch_calls, resolution_commits, every_blocked, every_resolved,
                   calls_at_failure, patching, attempted, review_log, pass_log, commit_failed_at,
                   script, disk0, final_log, last_urls, disk, state>>

\* spec_file = find_spec_file(state, logger)
FindSpecFile ==
    /\ PrologueStep("find_spec", "loop_head", "no_spec", BOOLEAN, {"comment"}, {"error_comment"})
    /\ UNCHANGED <<skip_resolution, attempt, review_result, agent_ok, blocker_idx,
                   resolved_count, failed_count, loop_end, review_runs, resolve_passes,
                   patch_calls, resolution_commits, every_blocked, every_resolved,
                   calls_at_failure, patching, attempted, review_log, pass_log, commit_failed_at,
                   script, disk0, final_log, last_urls, disk, state>>

\* while attempt < max_attempts: attempt += 1
LoopHead ==
    /\ pc = "loop_head"
    /\ UNCHANGED <<agent_vars, pipeline_vars, doc_vars, patch_vars, export_vars>>
    /\ IF attempt < max_attempts
       THEN /\ attempt' = attempt + 1
            /\ pc' = "run_review"
            /\ UNCHANGED loop_end
       ELSE /\ pc' = "after_loop"
            /\ loop_end' = "exhausted"
            /\ UNCHANGED attempt
    /\ UNCHANGED <<skip_resolution, review_result, agent_ok, blocker_idx, resolved_count,
                   failed_count, exit_code, exit_by, review_runs, resolve_passes, patch_calls,
                   resolution_commits, every_blocked, every_resolved, calls_at_failure, patching,
                   attempted, review_log, pass_log, commit_failed_at, script, disk0, final_log, last_urls, disk, state,
                   effects>>

\* review_result = run_review(...); upload_and_map_screenshots (which saves the
\* state when there are screenshot urls); post the review comment. An
\* exception out of run_review ends main with a traceback and status 1.
RunReview ==
    /\ pc = "run_review"
    /\ UNCHANGED <<agent_vars, pipeline_vars, doc_vars, patch_vars, export_vars>>
    /\ review_runs' = review_runs + 1
    /\ \E resp \in ReviewResponses :
          IF resp.kind = "raised"
          THEN /\ pc' = "exit"
               /\ exit_code' = 1
               /\ exit_by' = "exception"
               /\ effects' = effects \cup {"comment"}
               /\ UNCHANGED <<review_result, agent_ok, calls_at_failure, state, disk,
                              review_log, every_blocked, last_urls>>
          ELSE /\ review_result' = RunReviewResult(resp)
               /\ agent_ok' = resp.success
               /\ calls_at_failure' =
                     IF ~resp.success /\ calls_at_failure = 0
                     THEN review_runs + patch_calls + 1
                     ELSE calls_at_failure
               /\ \E screenshot_urls \in ScreenshotUrlLists(attempt) :
                     /\ state' = SavedScreenshots(state, screenshot_urls)
                     /\ last_urls' = IF screenshot_urls # Empty THEN screenshot_urls
                                                                ELSE last_urls
                     /\ IF Truthy(screenshot_urls)
                        THEN /\ disk' = state'
                             /\ effects' = effects \cup {"comment", "agent", "save"}
                        ELSE /\ effects' = effects \cup {"comment", "agent"}
                             /\ UNCHANGED disk
               /\ review_log' = Append(review_log, [success |-> review_result'.success,
                                                    blockers |-> BlockerCount(review_result')])
               /\ every_blocked' = (every_blocked /\ ~review_result'.success
                                                  /\ BlockerCount(review_result') > 0)
               /\ pc' = "check"
               /\ UNCHANGED <<exit_code, exit_by>>
    /\ attempted' = <<>>
    /\ UNCHANGED <<skip_resolution, attempt, blocker_idx, resolved_count, failed_count,
                   loop_end, resolve_passes, patch_calls, resolution_commits,
                   every_resolved, patching, pass_log, commit_failed_at, script,
                   disk0, final_log>>

\* the branch after the review comment: break, or enter resolve_review_issues
CheckResult ==
    /\ pc = "check"
    /\ UNCHANGED <<agent_vars, pipeline_vars, doc_vars, patch_vars, export_vars>>
    /\ IF review_result.success
       THEN /\ pc' = "after_loop"
            /\ loop_end' = "success"
            /\ UNCHANGED <<blocker_idx, resolved_count, failed_count, resolve_passes,
                           attempted>>
       ELSE IF StopLoop(attempt, max_attempts, BlockerCount(review_result), skip_resolution)
       THEN /\ pc' = "after_loop"
            /\ loop_end' = "stop"
            /\ UNCHANGED <<blocker_idx, resolved_count, failed_count, resolve_passes,
                           attempted>>
       ELSE /\ pc' = "resolve"
            /\ blocker_idx' = 0
            /\ resolved_count' = 0
            /\ failed_count' = 0
            /\ attempted' = <<>>
            /\ resolve_passes' = resolve_passes + 1
            /\ UNCHANGED loop_end
    /\ UNCHANGED <<skip_resolution, attempt, review_result, agent_ok, exit_code, exit_by,
                   review_runs, patch_calls, resolution_commits, every_blocked, every_resolved,
                   calls_at_failure, patching, review_log, pass_log, commit_failed_at, script, disk0, final_log, last_urls,
                   disk, state, effects>>

\* what create_and_implement_patch returns for one blocker
PatchOutcomes == {"no_patch_file", "implemented", "implement_failed"}

\* the finding the for loop of resolve_review_issues takes at index idx (from 0)
NextBlockerBackwards(issues, idx) ==
    BlockerIssues(issues)[Len(BlockerIssues(issues)) - idx]
NextBlocker(issues, idx) == BlockerIssues(issues)[idx + 1]

\* resolve_review_issues: "for idx, issue in enumerate(blocker_issues)" takes
\* the next blocker and calls create_and_implement_patch for it
StartPatch ==
    /\ pc = "resolve"
    /\ UNCHANGED <<agent_vars, pipeline_vars, doc_vars, patch_vars, export_vars>>
    /\ blocker_idx < Len(BlockerIssues(review_result.review_issues))
    /\ patching' = NextBlocker(review_result.review_issues, blocker_idx).review_issue_number
    /\ attempted' = Append(attempted, patching')
    /\ patch_calls' = patch_calls + 1
    /\ effects' = effects \cup {"comment", "agent"}
    /\ pc' = "patching"
    /\ UNCHANGED <<skip_resolution, attempt, review_result, agent_ok, blocker_idx,
                   resolved_count, failed_count, exit_code, exit_by, loop_end, review_runs,
                   resolve_passes, resolution_commits, every_blocked, every_resolved,
                   calls_at_failure, review_log, pass_log, commit_failed_at, script, disk0, final_log, last_urls, disk, state>>

\* resolve_review_issues: create_and_implement_patch has returned; the finding
\* counts as resolved or as failed and the for loop goes on
ResolveIssue ==
    /\ pc = "patching"
    /\ UNCHANGED <<agent_vars, pipeline_vars, doc_vars, patch_vars, export_vars>>
    /\ \E outcome \in PatchOutcomes :
          IF outcome = "implemented"
          THEN resolved_count' = resolved_count + 1 /\ UNCHANGED failed_count
          ELSE failed_count' = failed_count + 1 /\ UNCHANGED resolved_count
    /\ blocker_idx' = blocker_idx + 1
    /\ patching' = 0
    /\ pc' = "resolve"
    /\ UNCHANGED <<skip_resolution, attempt, review_result, agent_ok, exit_code, exit_by,
                   loop_end, review_runs, resolve_passes, patch_calls, resolution_commits,
                   every_blocked, every_resolved, calls_at_failure, attempted, review_log,
                   pass_log, commit_failed_at, script, disk0, final_log, last_urls, disk, state, effects>>

\* resolve_review_issues returns; main either goes on to commit or breaks
ResolveReturn ==
    /\ pc = "resolve"
    /\ UNCHANGED <<agent_vars, pipeline_vars, doc_vars, patch_vars, export_vars>>
    /\ blocker_idx = Len(BlockerIssues(review_result.review_issues))
    /\ every_resolved' = (every_resolved /\ resolved_count > 0)
    /\ pass_log' = Append(pass_log, [resolved |-> resolved_count, failed |-> failed_count])
    /\ IF RetryAfterResolution(resolved_count)
       THEN pc' = "commit_resolution" /\ UNCHANGED loop_end
       ELSE pc' = "after_loop" /\ loop_end' = "no_progress"
    /\ UNCHANGED <<skip_resolution, attempt, review_result, agent_ok, blocker_idx,
                   resolved_count, failed_count, exit_code, exit_by, review_runs, resolve_passes,
                   patch_calls, resolution_commits, every_blocked, calls_at_failure, patching,
                   attempted, review_log, commit_failed_at, script, disk0, final_log, last_urls, disk, state, effects>>

\* fetch_issue, create_commit and commit_changes for the resolution; an error
\* of either is logged and commented and the loop goes on
CommitResolution ==
    /\ pc = "commit_resolution"
    /\ UNCHANGED <<agent_vars, pipeline_vars, doc_vars, patch_vars, export_vars>>
    /\ \E msg_ok \in BOOLEAN, commit_ok \in BOOLEAN :
          /\ resolution_commits' =
                IF msg_ok /\ commit_ok THEN resolution_commits + 1 ELSE resolution_commits
          /\ commit_failed_at' =
                IF msg_ok /\ ~commit_ok /\ commit_failed_at = 0
                THEN review_runs
                ELSE commit_failed_at
          /\ effects' = effects \cup (IF msg_ok THEN {"comment", "agent", "commit"}
                                               ELSE {"comment", "agent"})
    /\ pc' = "loop_head"
    /\ UNCHANGED <<skip_resolution, attempt, review_result, agent_ok, blocker_idx,
                   resolved_count, failed_count, exit_code, exit_by, loop_end, review_runs,
                   resolve_passes, patch_calls, every_blocked, every_resolved, calls_at_failure,
                   patching, attempted, review_log, pass_log, script, disk0, final_log, last_urls, disk, state>>

\* the order of main's steps after the loop: create_commit, commit_changes,
\* finalize_git_operations, state.save, then the exit by outcome
PostLoopOrderMutant(at) ==
    CASE at = "after_loop" -> "final_commit"
      [] at = "final_commit" -> "save"
      [] at = "save" -> "finalize"
      [] OTHER -> "exit_decision"
PostLoopOrder(at) ==
    CASE at = "after_loop" -> "final_commit"
      [] at = "final_commit" -> "finalize"
      [] at = "finalize" -> "save"
      [] OTHER -> "exit_decision"

\* what main leaves alone after the loop
review_frame == <<skip_resolution, attempt, review_result, agent_ok, blocker_idx,
                  resolved_count, failed_count, loop_end, review_runs, resolve_passes,
                  patch_calls, resolution_commits, every_blocked, every_resolved,
                  calls_at_failure, patching, attempted, review_log, pass_log, script, disk0,
                  last_urls>>

\* the warning after the loop, fetch_issue and create_commit for the review commit
AfterLoop ==
    /\ pc = "after_loop"
    /\ UNCHANGED <<agent_vars, pipeline_vars, doc_vars, patch_vars, export_vars>>
    /\ \E msg_ok \in BOOLEAN :
          IF msg_ok
          THEN pc' = PostLoopOrder(pc) /\ UNCHANGED <<exit_code, exit_by>>
          ELSE ExitEarly("commit_message")
    /\ effects' = effects \cup {"comment", "agent"}
    /\ UNCHANGED <<review_frame, commit_failed_at, final_log, disk, state>>

\* success, error = commit_changes(commit_msg)
FinalCommit ==
    /\ pc = "final_commit"
    /\ UNCHANGED <<agent_vars, pipeline_vars, doc_vars, patch_vars, export_vars>>
    /\ \E commit_ok \in BOOLEAN :
          IF commit_ok
          THEN /\ pc' = PostLoopOrder(pc)
               /\ final_log' = Append(final_log, "commit")
               /\ UNCHANGED <<exit_code, exit_by, commit_failed_at>>
          ELSE /\ ExitEarly("commit")
               /\ commit_failed_at' =
                     IF commit_failed_at = 0 THEN review_runs ELSE commit_failed_at
               /\ UNCHANGED final_log
    /\ effects' = effects \cup {"comment", "commit"}
    /\ UNCHANGED <<review_frame, disk, state>>

\* finalize_git_operations(state, logger)
Finalize ==
    /\ pc = "finalize"
    /\ UNCHANGED <<agent_vars, pipeline_vars, doc_vars, patch_vars, export_vars>>
    /\ pc' = PostLoopOrder(pc)
    /\ effects' = effects \cup {"push"}
    /\ final_log' = Append(final_log, "push")
    /\ UNCHANGED <<exit_code, exit_by>>
    /\ UNCHANGED <<review_frame, commit_failed_at, disk, state>>

\* state.save("adw_review"); state.to_stdout()
SaveState ==
    /\ pc = "save"
    /\ UNCHANGED <<agent_vars, pipeline_vars, doc_vars, patch_vars, export_vars>>
    /\ pc' = PostLoopOrder(pc)
    /\ disk' = state
    /\ effects' = effects \cup {"save"}
    /\ final_log' = Append(final_log, "save")
    /\ UNCHANGED <<exit_code, exit_by>>
    /\ UNCHANGED <<review_frame, commit_failed_at, state>>

\* the exit code at the end of main
ExitByOutcome ==
    /\ pc = "exit_decision"
    /\ UNCHANGED <<agent_vars, pipeline_vars, doc_vars, patch_vars, export_vars>>
    /\ pc' = "exit"
    /\ exit_code' = ExitStatus(review_result)
    /\ exit_by' = "outcome"
    /\ UNCHANGED <<review_frame, commit_failed_at, final_log, disk, state, effects>>

\* ------------------------------------------------------------------------
\* adw_document.py
\* ------------------------------------------------------------------------
DocumentationResult(success, created, path) ==
    [success |-> success, documentation_created |-> created, documentation_path |-> path]

NoDocumentation == DocumentationResult(FALSE, FALSE, Missing)

\* response.output.strip() of a successful /document invocation
DocumentationPaths == {Empty, "doc.md"}

\* what generate_documentation returns: no changes to document, the agent's
\* path, or a failure (failed invocation or exception)
GenerateOutcomes ==
    { [agent |-> FALSE, result |-> DocumentationResult(TRUE, FALSE, Missing)],
      [agent |-> TRUE, result |-> DocumentationResult(FALSE, FALSE, Missing)] }
    \cup { [agent |-> TRUE, result |-> DocumentationResult(TRUE, TRUE, p)] :
             p \in DocumentationPaths }

DocInit ==
    /\ doc_pc = "load_state"
    /\ doc_result = NoDocumentation
    /\ doc_exit = NotExited
    /\ doc_exit_by = "none"
    /\ doc_agent_calls = 0

DocIdle ==
    /\ doc_pc = "idle"
    /\ doc_result = NoDocumentation
    /\ doc_exit = NotExited
    /\ doc_exit_by = "none"
    /\ doc_agent_calls = 0

\* sys.exit(code) of adw_document.main
DocExit(code, why) ==
    /\ doc_pc' = "exit"
    /\ doc_exit' = code
    /\ doc_exit_by' = why

\* the agent invocations among the side effects of one step
AgentCalls(done) == IF "agent" \in done THEN 1 ELSE 0

\* a step of adw_document.main that passes or exits 1
DocStep(here, next, why, oks, done_ok, done_fail) ==
    /\ doc_pc = here
    /\ UNCHANGED <<review_vars, agent_vars, pipeline_vars, patch_vars, export_vars>>
    /\ \E ok \in oks :
          IF ok
          THEN /\ doc_pc' = next
               /\ effects' = effects \cup done_ok
               /\ doc_agent_calls' = doc_agent_calls + AgentCalls(done_ok)
               /\ UNCHANGED <<doc_exit, doc_exit_by>>
          ELSE /\ DocExit(1, why)
               /\ effects' = effects \cup done_fail
               /\ doc_agent_calls' = doc_agent_calls + AgentCalls(done_fail)

\* state = ADWState.load(adw_id, temp_logger); "if state:" comment, else sys.exit(1)
DocLoadState ==
    /\ DocStep("load_state", "check_env", "no_state", {StateFound(ADWStateLoad(disk))},
               {"comment"}, {})
    /\ state' = ADWStateLoad(disk)
    /\ UNCHANGED <<doc_result, script, disk0, disk>>

\* check_env_vars(logger)
DocCheckEnvVars ==
    /\ DocStep("check_env", "branch_name", "env", BOOLEAN, {}, {})
    /\ UNCHANGED <<doc_result, script, disk0, disk, state>>

\* if not state.get("branch_name"): error comment, sys.exit(1)
DocCheckBranchName ==
    /\ DocStep("branch_name", "checkout", "no_branch", {Truthy(state.branch_name)},
               {}, {"error_comment"})
    /\ UNCHANGED <<doc_result, script, disk0, disk, state>>

\* git checkout branch_name; on failure an error comment and sys.exit(1)
DocCheckoutBranch ==
    /\ DocStep("checkout", "generate", "checkout", BOOLEAN,
               {"checkout"}, {"checkout", "error_comment"})
    /\ UNCHANGED <<doc_result, script, disk0, disk, state>>

AfterGenerateMutant(result) ==
    IF result.documentation_created THEN "repo_url" ELSE "finish"

\* the next position after "result = generate_documentation(...)"
AfterGenerate(result) ==
    IF ~result.success THEN "failed"
    ELSE IF result.documentation_created THEN "repo_url"
    ELSE "finish"

\* the initial comment and result = generate_documentation(...)
DocGenerate ==
    /\ doc_pc = "generate"
    /\ UNCHANGED <<review_vars, agent_vars, pipeline_vars, patch_vars, export_vars>>
    /\ \E o \in GenerateOutcomes :
          /\ doc_result' = o.result
          /\ effects' = effects \cup (IF o.agent THEN {"comment", "agent"} ELSE {"comment"})
          /\ doc_agent_calls' = doc_agent_calls + (IF o.agent THEN 1 ELSE 0)
    /\ doc_pc' = AfterGenerate(doc_result')
    /\ UNCHANGED <<doc_exit, doc_exit_by, script, disk0, disk, state>>

\* get_repo_url() / extract_repo_path(); ValueError: comment, sys.exit(1)
DocGetRepoUrl ==
    /\ DocStep("repo_url", "fetch_issue", "repo_url", BOOLEAN, {}, {"error_comment"})
    /\ UNCHANGED <<doc_result, script, disk0, disk, state>>

\* issue = fetch_issue(issue_number, repo_path); exception: comment, sys.exit(1)
DocFetchIssue ==
    /\ DocStep("fetch_issue", "create_commit", "fetch_issue", BOOLEAN, {}, {"error_comment"})
    /\ UNCHANGED <<doc_result, script, disk0, disk, state>>

\* commit_msg, error = create_commit(...); error: comment, sys.exit(1)
DocCreateCommit ==
    /\ DocStep("create_commit", "commit", "commit_message", BOOLEAN,
               {"agent"}, {"agent", "error_comment"})
    /\ UNCHANGED <<doc_result, script, disk0, disk, state>>

\* success, error = commit_changes(commit_msg); failure: comment, sys.exit(1)
DocCommit ==
    /\ DocStep("commit", "finalize", "commit", BOOLEAN, {"commit"}, {"commit", "error_comment"})
    /\ UNCHANGED <<doc_result, script, disk0, disk, state>>

\* finalize_git_operations(state, logger)
DocFinalize ==
    /\ doc_pc = "finalize"
    /\ UNCHANGED <<review_vars, agent_vars, pipeline_vars, patch_vars, export_vars>>
    /\ doc_pc' = "finish"
    /\ effects' = effects \cup {"push"}
    /\ UNCHANGED <<doc_result, doc_exit, doc_exit_by, doc_agent_calls, script, disk0, disk, state>>

\* the key of "state.update(documentation_path=result.documentation_path)"
DocumentationKeyMutant == "review_screenshots"
DocumentationKey == "documentation_path"

\* the success comment; "if result.documentation_path: state.update(...)";
\* state.save("adw_document"); sys.exit(0)
DocFinish ==
    /\ doc_pc = "finish"
    /\ UNCHANGED <<review_vars, agent_vars, pipeline_vars, patch_vars, export_vars>>
    /\ state' = IF Truthy(doc_result.documentation_path)
                THEN StateUpdate(state, DocumentationKey, doc_result.documentation_path)
                ELSE state
    /\ disk' = state'
    /\ effects' = effects \cup {"comment", "save"}
    /\ DocExit(0, "done")
    /\ UNCHANGED <<doc_result, doc_agent_calls, script, disk0>>

\* the failure comment; state.save("adw_document"); sys.exit(1)
DocFail ==
    /\ doc_pc = "failed"
    /\ UNCHANGED <<review_vars, agent_vars, pipeline_vars, patch_vars, export_vars>>
    /\ disk' = state
    /\ effects' = effects \cup {"error_comment", "save"}
    /\ DocExit(1, "generation_failed")
    /\ UNCHANGED <<doc_result, doc_agent_calls, script, disk0, state>>

\* ------------------------------------------------------------------------
\* adw_patch.py
\* ------------------------------------------------------------------------
\* the issue as get_patch_content reads it: whether the body contains
\* 'adw_patch', and for each comment, oldest first, whether it does
Issue(body, comments) == [body_has_keyword |-> body, comments |-> comments]
NoIssue == Issue(FALSE, <<>>)
Issues ==
    { Issue(b, c) : b \in BOOLEAN, c \in UNION { [1..n -> BOOLEAN] : n \in 0..MaxComments } }

\* find_keyword_from_comment("adw_patch", issue): the latest comment that
\* contains the keyword, 0 when no comment does
FindKeywordFromComment(issue) ==
    LET found == { i \in 1..Len(issue.comments) : issue.comments[i] }
    IN  IF found = {} THEN 0 ELSE CHOOSE i \in found : \A j \in found : j <= i

\* a review_change_request: the body of comment number "comment", or the
\* issue's title and body
Request(source, comment) == [source |-> source, comment |-> comment]
NoRequest == Request("none", 0)

\* get_patch_content: the keyword comment's body, else title and body of an
\* issue whose body has the keyword, else nothing (sys.exit(1))
GetPatchContentMutant(issue) ==
    IF issue.body_has_keyword THEN Request("issue", 0)
    ELSE IF FindKeywordFromComment(issue) > 0
    THEN Request("comment", FindKeywordFromComment(issue))
    ELSE NoRequest
GetPatchContent(issue) ==
    IF FindKeywordFromComment(issue) > 0
    THEN Request("comment", FindKeywordFromComment(issue))
    ELSE IF issue.body_has_keyword THEN Request("issue", 0)
    ELSE NoRequest

PatchInit ==
    /\ patch_pc = "ensure_adw_id"
    /\ patch_file = Missing
    /\ implement_ok = FALSE
    /\ patch_exit = NotExited
    /\ patch_exit_by = "none"
    /\ patch_issue = NoIssue
    /\ change_request = NoRequest

PatchIdle ==
    /\ patch_pc = "idle"
    /\ patch_file = Missing
    /\ implement_ok = FALSE
    /\ patch_exit = NotExited
    /\ patch_exit_by = "none"
    /\ patch_issue = NoIssue
    /\ change_request = NoRequest

\* sys.exit(code) or the end of adw_patch.main
PatchExit(code, why) ==
    /\ patch_pc' = "exit"
    /\ patch_exit' = code
    /\ patch_exit_by' = why

\* a step of adw_patch.main that passes or exits 1
PatchStep(here, next, why, oks, done_ok, done_fail) ==
    /\ patch_pc = here
    /\ UNCHANGED <<review_vars, agent_vars, pipeline_vars, doc_vars, export_vars>>
    /\ \E ok \in oks :
          IF ok
          THEN /\ patch_pc' = next
               /\ effects' = effects \cup done_ok
               /\ UNCHANGED <<patch_exit, patch_exit_by>>
          ELSE /\ PatchExit(1, why)
               /\ effects' = effects \cup done_fail

\* ensure_adw_id: the state file of the adw_id, created when there is none
EnsureAdwIdState(d) == IF d.exists THEN d ELSE [d EXCEPT !.exists = TRUE]

\* adw_id = ensure_adw_id(...); state = ADWState.load(adw_id, temp_logger)
PatchEnsureAdwId ==
    /\ patch_pc = "ensure_adw_id"
    /\ UNCHANGED <<review_vars, agent_vars, pipeline_vars, doc_vars, export_vars>>
    /\ disk' = EnsureAdwIdState(disk)
    /\ state' = ADWStateLoad(disk')
    /\ effects' = IF disk.exists THEN effects ELSE effects \cup {"save"}
    /\ patch_pc' = "check_env"
    /\ UNCHANGED <<patch_file, implement_ok, patch_issue, change_request, patch_exit, patch_exit_by, script, disk0>>

\* check_env_vars(logger)
PatchCheckEnvVars ==
    /\ PatchStep("check_env", "repo_url", "env", BOOLEAN, {}, {})
    /\ UNCHANGED <<patch_file, implement_ok, patch_issue, change_request, script, disk0, disk, state>>

\* get_repo_url() / extract_repo_path(); ValueError: sys.exit(1)
PatchGetRepoUrl ==
    /\ PatchStep("repo_url", "branch", "repo_url", BOOLEAN, {}, {})
    /\ UNCHANGED <<patch_file, implement_ok, patch_issue, change_request, script, disk0, disk, state>>

\* fetch_issue, the starting comments, create_or_find_branch (which sets
\* branch_name in the state), state.save("adw_patch")
PatchBranch ==
    /\ PatchStep("branch", "patch_content", "branch", BOOLEAN,
                 {"comment", "checkout", "save"}, {"comment", "error_comment", "checkout"})
    /\ IF patch_pc' = "patch_content"
       THEN /\ state' = StateUpdate(state, "branch_name", "feat")
            /\ disk' = state'
       ELSE UNCHANGED <<state, disk>>
    /\ UNCHANGED <<patch_file, implement_ok, patch_issue, change_request, script, disk0>>

\* review_change_request = get_patch_content(issue, ...) on the issue that
\* fetch_issue returned: sys.exit(1) without keyword
PatchContent ==
    /\ patch_pc = "patch_content"
    /\ \E issue \in Issues :
          /\ patch_issue' = issue
          /\ change_request' = GetPatchContent(issue)
    /\ PatchStep("patch_content", "create_patch", "no_keyword",
                 {change_request' # NoRequest}, {"comment"}, {"error_comment"})
    /\ UNCHANGED <<patch_file, implement_ok, script, disk0, disk, state>>

\* patch_file, implement_response = create_and_implement_patch(...);
\* "if not patch_file:" comment, sys.exit(1)
PatchCreate ==
    /\ patch_pc = "create_patch"
    /\ UNCHANGED <<review_vars, agent_vars, pipeline_vars, doc_vars, export_vars>>
    /\ \E outcome \in PatchOutcomes :
          /\ patch_file' = IF outcome = "no_patch_file" THEN Missing ELSE "patch.md"
          /\ implement_ok' = (outcome = "implemented")
    /\ IF Truthy(patch_file')
       THEN /\ patch_pc' = "save_patch_file"
            /\ effects' = effects \cup {"agent"}
            /\ UNCHANGED <<patch_exit, patch_exit_by>>
       ELSE /\ PatchExit(1, "no_patch_file")
            /\ effects' = effects \cup {"agent", "error_comment"}
    /\ UNCHANGED <<patch_issue, change_request, script, disk0, disk, state>>

\* state.update(patch_file=patch_file); state.save("adw_patch"); comment
PatchSaveFile ==
    /\ patch_pc = "save_patch_file"
    /\ UNCHANGED <<review_vars, agent_vars, pipeline_vars, doc_vars, export_vars>>
    /\ state' = StateUpdate(state, "patch_file", patch_file)
    /\ disk' = state'
    /\ effects' = effects \cup {"save", "comment"}
    /\ patch_pc' = "check_implement"
    /\ UNCHANGED <<patch_file, implement_ok, patch_issue, change_request, patch_exit, patch_exit_by, script, disk0>>

\* "if not implement_response.success:" comment, sys.exit(1)
PatchCheckImplement ==
    /\ PatchStep("check_implement", "create_commit", "implement", {implement_ok},
                 {"comment"}, {"error_comment"})
    /\ UNCHANGED <<patch_file, implement_ok, patch_issue, change_request, script, disk0, disk, state>>

\* commit_msg, error = create_commit(...); error: comment, sys.exit(1)
PatchCreateCommit ==
    /\ PatchStep("create_commit", "commit", "commit_message", BOOLEAN,
                 {"agent"}, {"agent", "error_comment"})
    /\ UNCHANGED <<patch_file, implement_ok, patch_issue, change_request, script, disk0, disk, state>>

\* success, error = commit_changes(commit_msg); failure: comment, sys.exit(1)
PatchCommit ==
    /\ PatchStep("commit", "finalize", "commit", BOOLEAN,
                 {"commit", "comment"}, {"commit", "error_comment"})
    /\ UNCHANGED <<patch_file, implement_ok, patch_issue, change_request, script, disk0, disk, state>>

\* finalize_git_operations(state, logger); state.save("adw_patch"); main ends
PatchFinalize ==
    /\ patch_pc = "finalize"
    /\ UNCHANGED <<review_vars, agent_vars, pipeline_vars, doc_vars, export_vars>>
    /\ disk' = state
    /\ effects' = effects \cup {"push", "save", "comment"}
    /\ PatchExit(0, "done")
    /\ UNCHANGED <<patch_file, implement_ok, patch_issue, change_request, script, disk0, state>>

\* ------------------------------------------------------------------------
\* app/server/core/csv_exporter.py
\* ------------------------------------------------------------------------
\* sanitized[:255]
FILENAME_LIMIT == 255

\* the characters of a name: a letter, an underscore, a dot, a space, one of
\* < > : " / \ | ? * and a control character \x00-\x1f
Characters == {"a", "_", ".", " ", "/", "ctl"}
InvalidChars == {"/", "ctl"}
StripChars == {".", " "}

\* a string: pad letters followed by the characters of tail
Name(pad, tail) == [pad |-> pad, tail |-> tail]
Length(n) == n.pad + Len(n.tail)

\* the lengths of the run of letters: none, and around the limit
Pads == {0, FILENAME_LIMIT - 2, FILENAME_LIMIT - 1, FILENAME_LIMIT, FILENAME_LIMIT + 1}
Names ==
    { Name(p, t) : p \in Pads, t \in UNION { [1..k -> Characters] : k \in 0..MaxTail } }

\* the default name
Export == Name(0, <<"e", "x", "p", "o", "r", "t">>)

\* re.sub(invalid_chars, '_', name)
ReplaceInvalid(n) ==
    Name(n.pad, [i \in 1..Len(n.tail) |->
                    IF n.tail[i] \in InvalidChars THEN "_" ELSE n.tail[i]])

\* s.lstrip('. ') and s.rstrip('. ') of a sequence of characters
RECURSIVE LStrip(_)
LStrip(t) == IF t # <<>> /\ Head(t) \in StripChars THEN LStrip(Tail(t)) ELSE t
RECURSIVE RStrip(_)
RStrip(t) ==
    IF t # <<>> /\ t[Len(t)] \in StripChars THEN RStrip(SubSeq(t, 1, Len(t) - 1)) ELSE t

\* sanitized.strip('. '): the letters of the pad are never stripped
Strip(n) ==
    IF n.pad > 0 THEN Name(n.pad, RStrip(n.tail)) ELSE Name(0, RStrip(LStrip(n.tail)))

\* not sanitized or sanitized.replace('_', '') == ''
EmptyOrUnderscores(n) == n.pad = 0 /\ \A i \in 1..Len(n.tail) : n.tail[i] = "_"

\* if ...: sanitized = 'export'
WithDefault(n) == IF EmptyOrUnderscores(n) THEN Export ELSE n

\* sanitized[:255]
Truncate(n) ==
    IF n.pad >= FILENAME_LIMIT THEN Name(FILENAME_LIMIT, <<>>)
    ELSE IF Length(n) > FILENAME_LIMIT THEN Name(n.pad, SubSeq(n.tail, 1, FILENAME_LIMIT - n.pad))
    ELSE n

sanitize_filename(n) == Truncate(WithDefault(Strip(ReplaceInvalid(n))))

NoName == Name(0, <<>>)

ExportInit ==
    /\ export_pc = "start"
    /\ file_name \in Names
    /\ sanitized = NoName
    /\ resanitized = NoName

ExportIdle ==
    /\ export_pc = "idle"
    /\ file_name = NoName
    /\ sanitized = NoName
    /\ resanitized = NoName

\* sanitized = sanitize_filename(file_name)
Sanitize ==
    /\ export_pc = "start"
    /\ sanitized' = sanitize_filename(file_name)
    /\ export_pc' = "sanitized"
    /\ UNCHANGED <<file_name, resanitized>>
    /\ UNCHANGED <<review_vars, stage_vars, doc_vars, patch_vars, agent_vars, pipeline_vars>>

\* sanitize_filename applied to its own result
SanitizeAgain ==
    /\ export_pc = "sanitized"
    /\ resanitized' = sanitize_filename(sanitized)
    /\ export_pc' = "resanitized"
    /\ UNCHANGED <<file_name, sanitized>>
    /\ UNCHANGED <<review_vars, stage_vars, doc_vars, patch_vars, agent_vars, pipeline_vars>>

\* ------------------------------------------------------------------------
\* adw_modules/agent.py
\* ------------------------------------------------------------------------
NoSession == "none"

\* one line of the output file: blank, not JSON, a JSON value that is no
\* object, or a message object with the keys prompt_claude_code reads
BlankLine == [kind |-> "blank", type |-> "", subtype |-> "", is_error |-> FALSE,
              session_id |-> NoSession]
InvalidLine == [kind |-> "invalid", type |-> "", subtype |-> "", is_error |-> FALSE,
                session_id |-> NoSession]
ScalarLine == [kind |-> "scalar", type |-> "", subtype |-> "", is_error |-> FALSE,
               session_id |-> NoSession]
Message(type, subtype, is_error, sid) ==
    [kind |-> "message", type |-> type, subtype |-> subtype, is_error |-> is_error,
     session_id |-> sid]

Lines ==
    { BlankLine, InvalidLine, ScalarLine, Message("assistant", "", FALSE, NoSession) }
    \cup { Message("result", st, e, "s1") :
             st \in {"success", "error_during_execution"}, e \in BOOLEAN }

Outputs == UNION { [1..n -> Lines] : n \in 0..MaxLines }

NoMessage == [kind |-> "none", type |-> "", subtype |-> "", is_error |-> FALSE,
              session_id |-> NoSession]

\* json.loads(line) succeeds on the stripped, non-empty line
IsJson(line) == line.kind \in {"scalar", "message"}

\* the index of the last message that ends the reversed scan: a "result"
\* message (found) or a value without .get (AttributeError); 0 if none
LastScanStop(messages) ==
    LET stops == { i \in 1..Len(messages) :
                     messages[i].kind = "scalar" \/ messages[i].type = "result" }
    IN  IF stops = {} THEN 0
        ELSE CHOOSE i \in stops : \A j \in stops : j <= i

\* parse_jsonl_output: the result message, NoMessage when there is none or the
\* scan raised
ParseJsonlOutput(lines) ==
    LET messages == SelectSeq(lines, IsJson)
        stop == LastScanStop(messages)
    IN  IF stop = 0 THEN NoMessage
        ELSE IF messages[stop].kind = "scalar" THEN NoMessage
        ELSE messages[stop]

AgentResponse(output, success, sid) ==
    [output |-> output, success |-> success, session_id |-> sid]

NoResponse == [output |-> "none", success |-> FALSE, session_id |-> NoSession]

\* check_claude_installed returns an error message
InstallError(outcome) == outcome \in {"nonzero", "not_found"}

InstallOutcomes == {"ok", "nonzero", "not_found", "os_error"}

\* what the agent process does once started; returncode is "zero", "nonzero"
\* or "crash" (one of fatal_error_codes)
NoProc == [behaviour |-> "none", returncode |-> "zero", stderr |-> FALSE, lines |-> <<>>]
Procs ==
    { [behaviour |-> "exits", returncode |-> rc, stderr |-> e, lines |-> l] :
        rc \in {"zero", "nonzero", "crash"}, e \in BOOLEAN, l \in Outputs }
    \cup { [behaviour |-> "hangs", returncode |-> "zero", stderr |-> FALSE, lines |-> <<>>],
           [behaviour |-> "spawn_error", returncode |-> "zero", stderr |-> FALSE,
            lines |-> <<>>] }

\* the branch "if result.returncode == 0" when there is a result message
ResultResponse(msg) ==
    IF msg.subtype = "error_during_execution"
    THEN AgentResponse("error_during_execution", FALSE, msg.session_id)
    ELSE AgentResponse("result_text", ~msg.is_error, msg.session_id)

\* the branch "else: No result message found, return raw output"
NoResultResponse == AgentResponse("raw_output", TRUE, NoSession)

\* the branch "else" of "if result.returncode == 0"
NonZeroResponse(p) ==
    IF p.returncode = "crash" THEN AgentResponse("crashed", FALSE, NoSession)
    ELSE IF p.stderr THEN AgentResponse("stderr", FALSE, NoSession)
    ELSE AgentResponse("exit_code", FALSE, NoSession)

\* what prompt_claude_code returns once subprocess.run has returned
ExitResponseMutant(p) ==
    LET msg == ParseJsonlOutput(p.lines)
    IN  IF msg = NoMessage THEN NoResultResponse ELSE ResultResponse(msg)
ExitResponse(p) ==
    IF p.returncode = "zero"
    THEN LET msg == ParseJsonlOutput(p.lines)
         IN  IF msg = NoMessage THEN NoResultResponse ELSE ResultResponse(msg)
    ELSE NonZeroResponse(p)

\* the variables get_claude_env names, and one it does not
NamedVariables ==
    {"ANTHROPIC_API_KEY", "CLAUDE_CODE_PATH", "CLAUDE_BASH_MAINTAIN_PROJECT_WORKING_DIR",
     "E2B_API_KEY", "GITHUB_PAT", "GH_TOKEN"}
EnvNames == NamedVariables \cup {"AWS_SECRET_ACCESS_KEY"}

Unset == "unset"

\* the values a variable has in os.environ
EnvValues(name) ==
    CASE name = "GITHUB_PAT" -> {Unset, "pat"}
      [] name = "GH_TOKEN" -> {Unset, "old_token"}
      [] name = "AWS_SECRET_ACCESS_KEY" -> {Unset, "secret"}
      [] OTHER -> {Unset, "set"}

ParentEnvs == { e \in [EnvNames -> {Unset, "pat", "old_token", "secret", "set"}] :
                  \A n \in EnvNames : e[n] \in EnvValues(n) }

NoEnv == [n \in EnvNames |-> Unset]

\* get_claude_env: os.environ.copy(), each named variable set again to its own
\* value when it is set, and GH_TOKEN set to GITHUB_PAT when that is set
GetClaudeEnv(environ) ==
    [environ EXCEPT !["GH_TOKEN"] =
        IF environ["GITHUB_PAT"] # Unset THEN environ["GITHUB_PAT"] ELSE @]

AgentInit ==
    /\ ag_pc = "start"
    /\ parent_env \in ParentEnvs
    /\ child_env = NoEnv
    /\ install_check = "none"
    /\ prompt_saved = FALSE
    /\ output_written = FALSE
    /\ launched = FALSE
    /\ proc = NoProc
    /\ response = NoResponse

AgentIdle ==
    /\ ag_pc = "idle"
    /\ parent_env = NoEnv
    /\ child_env = NoEnv
    /\ install_check = "none"
    /\ prompt_saved = FALSE
    /\ output_written = FALSE
    /\ launched = FALSE
    /\ proc = NoProc
    /\ response = NoResponse

\* error_msg = check_claude_installed(); if error_msg: return failure
AgentCheckInstalled ==
    /\ ag_pc = "start"
    /\ UNCHANGED <<review_vars, stage_vars, doc_vars, patch_vars, pipeline_vars, export_vars>>
    /\ \E outcome \in InstallOutcomes :
          /\ install_check' = outcome
          /\ IF InstallError(outcome)
             THEN /\ response' = AgentResponse("not_installed", FALSE, NoSession)
                  /\ ag_pc' = "returned"
             ELSE IF outcome = "os_error"
             THEN /\ ag_pc' = "raised"
                  /\ UNCHANGED response
             ELSE /\ ag_pc' = "save_prompt"
                  /\ UNCHANGED response
    /\ UNCHANGED <<prompt_saved, output_written, launched, proc, parent_env, child_env>>

\* prompt_file = save_prompt(...); os.makedirs(output_dir)
AgentSavePrompt ==
    /\ ag_pc = "save_prompt"
    /\ UNCHANGED <<review_vars, stage_vars, doc_vars, patch_vars, pipeline_vars, export_vars>>
    /\ prompt_saved' = TRUE
    /\ ag_pc' = "launch"
    /\ UNCHANGED <<install_check, output_written, launched, proc, response, parent_env,
                   child_env>>

\* env = get_claude_env(); with open(request.output_file, "w"):
\* subprocess.run(cmd, ..., env=env), no timeout given
AgentLaunch ==
    /\ ag_pc = "launch"
    /\ child_env' = GetClaudeEnv(parent_env)
    /\ UNCHANGED <<review_vars, stage_vars, doc_vars, patch_vars, pipeline_vars, export_vars>>
    /\ output_written' = TRUE
    /\ \E p \in Procs :
          /\ proc' = p
          /\ IF p.behaviour = "spawn_error"
             THEN /\ launched' = FALSE
                  /\ response' = AgentResponse("exception", FALSE, NoSession)
                  /\ ag_pc' = "returned"
             ELSE /\ launched' = TRUE
                  /\ ag_pc' = "running"
                  /\ UNCHANGED response
    /\ UNCHANGED <<install_check, prompt_saved, parent_env>>

\* subprocess.run returns when the process exits; the response is built
AgentProcessExit ==
    /\ ag_pc = "running"
    /\ UNCHANGED <<review_vars, stage_vars, doc_vars, patch_vars, pipeline_vars, export_vars>>
    /\ proc.behaviour = "exits"
    /\ response' = ExitResponse(proc)
    /\ ag_pc' = "returned"
    /\ UNCHANGED <<install_check, prompt_saved, output_written, launched, proc,
                   parent_env, child_env>>

AgentNext ==
    \/ AgentCheckInstalled
    \/ AgentSavePrompt
    \/ AgentLaunch
    \/ AgentProcessExit

\* ------------------------------------------------------------------------
\* adw_sdlc.py, adw_plan_build_test.py, adw_plan_build_review.py,
\* adw_plan_build_document.py, adw_plan_build_test_review.py
\* ------------------------------------------------------------------------
Variants == {"adw_sdlc", "adw_plan_build_test", "adw_plan_build_review",
             "adw_plan_build_document", "adw_plan_build_test_review"}

\* the stage scripts a composer runs with subprocess.run, in order
StagesMutant(v) ==
    CASE v = "adw_sdlc" -> <<"plan", "test", "review", "document">>
      [] v = "adw_plan_build_test" -> <<"plan", "build", "test">>
      [] v = "adw_plan_build_review" -> <<"plan", "build", "review">>
      [] v = "adw_plan_build_document" -> <<"plan", "build", "document">>
      [] v = "adw_plan_build_test_review" -> <<"plan", "build", "test">>
      [] OTHER -> <<>>
Stages(v) ==
    CASE v = "adw_sdlc" -> <<"plan", "build", "test", "review", "document">>
      [] v = "adw_plan_build_test" -> <<"plan", "build", "test">>
      [] v = "adw_plan_build_review" -> <<"plan", "build", "review">>
      [] v = "adw_plan_build_document" -> <<"plan", "build", "document">>
      [] v = "adw_plan_build_test_review" -> <<"plan", "build", "test">>
      [] OTHER -> <<>>

\* "if <stage>.returncode != 0: sys.exit(1)": every stage of every composer
\* but the test stage of adw_plan_build_test_review, which logs a warning
HaltsOnFailureMutant(v, stage) == stage # "build"
HaltsOnFailure(v, stage) == ~(v = "adw_plan_build_test_review" /\ stage = "test")

\* what a composer does after its last stage
PostWork(v) ==
    CASE v = "adw_plan_build_test_review" ->
            {"finalize_git_operations", "summary", "state_save"}
      [] v = "adw_plan_build_test" -> {}
      [] OTHER -> {"summary"}

\* the progress a stage's successful completion stands for
ProgressAfter(stage) ==
    CASE stage = "plan" -> "PLANNED"
      [] stage = "build" -> "BUILT"
      [] stage = "test" -> "TESTED"
      [] stage = "review" -> "REVIEWED"
      [] stage = "document" -> "DOCUMENTED"

\* ensure_adw_id(issue_number, adw_id): the id given on the command line, or
\* a new one
EnsureAdwId_Result(given) == IF given THEN "given_id" ELSE "new_id"

\* the adw-id argument in <stage>_cmd
StageAdwIdMutant(v, stage, id) == IF stage = "plan" THEN id ELSE "none"
StageAdwId(v, stage, id) == id

NoFailure == [at |-> 0, stage |-> "none"]
NoTransition == [from |-> "none", to |-> "none", stage |-> "none", code |-> 0]

PipelineInit ==
    /\ variant \in Variants
    /\ adw_id_arg \in BOOLEAN
    /\ stage_idx = 0
    /\ running = "none"
    /\ launches = <<>>
    /\ last_code = 0
    /\ composer_exit = NotExited
    /\ post_work = {}
    /\ failed = NoFailure
    /\ progress = "UNINITIALIZED"
    /\ last_transition = NoTransition
    /\ adw_id = "none"
    /\ launch_ids = <<>>

PipelineIdle ==
    /\ variant = "none"
    /\ adw_id_arg = FALSE
    /\ stage_idx = 0
    /\ running = "none"
    /\ launches = <<>>
    /\ last_code = 0
    /\ composer_exit = NotExited
    /\ post_work = {}
    /\ failed = NoFailure
    /\ progress = "UNINITIALIZED"
    /\ last_transition = NoTransition
    /\ adw_id = "none"
    /\ launch_ids = <<>>

\* adw_id = ensure_adw_id(issue_number, adw_id)
EnsureAdwId ==
    /\ stage_idx = 0
    /\ variant \in Variants
    /\ UNCHANGED <<review_vars, stage_vars, doc_vars, patch_vars, agent_vars, export_vars>>
    /\ stage_idx' = 1
    /\ adw_id' = EnsureAdwId_Result(adw_id_arg)
    /\ UNCHANGED <<variant, adw_id_arg, running, launches, last_code, composer_exit,
                   post_work, failed, progress, last_transition, launch_ids>>

\* <stage> = subprocess.run(<stage>_cmd): the child starts
LaunchStage ==
    /\ composer_exit = NotExited
    /\ running = "none"
    /\ stage_idx \in 1..Len(Stages(variant))
    /\ UNCHANGED <<review_vars, stage_vars, doc_vars, patch_vars, agent_vars, export_vars>>
    /\ running' = Stages(variant)[stage_idx]
    /\ launches' = Append(launches, Stages(variant)[stage_idx])
    /\ launch_ids' = Append(launch_ids,
                            StageAdwId(variant, Stages(variant)[stage_idx], adw_id))
    /\ UNCHANGED <<variant, adw_id_arg, stage_idx, last_code, composer_exit, post_work,
                   failed, progress, last_transition, adw_id>>

\* the child exits; "if <stage>.returncode != 0: sys.exit(1)"
StageExit ==
    /\ running # "none"
    /\ UNCHANGED <<review_vars, stage_vars, doc_vars, patch_vars, agent_vars, export_vars>>
    /\ \E code \in 0..MaxExitCode :
          /\ last_code' = code
          /\ failed' = IF code # 0 /\ failed = NoFailure
                       THEN [at |-> Len(launches), stage |-> running]
                       ELSE failed
          /\ IF code = 0 /\ ProgressAfter(running) # progress
             THEN /\ progress' = ProgressAfter(running)
                  /\ last_transition' = [from |-> progress, to |-> ProgressAfter(running),
                                         stage |-> running, code |-> code]
             ELSE UNCHANGED <<progress, last_transition>>
          /\ IF code # 0 /\ HaltsOnFailure(variant, running)
             THEN composer_exit' = 1 /\ UNCHANGED stage_idx
             ELSE stage_idx' = stage_idx + 1 /\ UNCHANGED composer_exit
    /\ running' = "none"
    /\ UNCHANGED <<variant, adw_id_arg, launches, post_work, adw_id, launch_ids>>

\* after the last stage: the composer's own closing work, then exit 0
ComposerFinish ==
    /\ composer_exit = NotExited
    /\ running = "none"
    /\ variant \in Variants
    /\ stage_idx = Len(Stages(variant)) + 1
    /\ UNCHANGED <<review_vars, stage_vars, doc_vars, patch_vars, agent_vars, export_vars>>
    /\ post_work' = PostWork(variant)
    /\ composer_exit' = 0
    /\ UNCHANGED <<variant, adw_id_arg, stage_idx, running, launches, last_code, failed,
                   progress, last_transition, adw_id, launch_ids>>

PipelineNext ==
    \/ EnsureAdwId
    \/ LaunchStage
    \/ StageExit
    \/ ComposerFinish

\* ------------------------------------------------------------------------
\* Specifications
\* ------------------------------------------------------------------------
\* adw_review.py <issue> <adw-id> [--skip-resolution]; a rerun on a state
\* file that already holds review, document and patch output is explored
\* with --skip-resolution
ReviewStart ==
    /\ ReviewInit
    /\ StageInit("adw_review")
    /\ disk.review_screenshots # Missing => skip_resolution

Init ==
    ReviewStart /\ DocIdle /\ PatchIdle /\ AgentIdle /\ PipelineIdle /\ ExportIdle

Next ==
    \/ LoadState
    \/ CheckEnvVars
    \/ GetRepoUrl
    \/ CheckBranchName
    \/ CheckoutBranch
    \/ FindSpecFile
    \/ LoopHead
    \/ RunReview
    \/ CheckResult
    \/ StartPatch
    \/ ResolveIssue
    \/ ResolveReturn
    \/ CommitResolution
    \/ AfterLoop
    \/ FinalCommit
    \/ Finalize
    \/ SaveState
    \/ ExitByOutcome

\* adw_review.main
Spec == Init /\ [][Next]_vars

InitAgent ==
    ReviewIdle /\ StageIdle /\ DocIdle /\ PatchIdle /\ AgentInit /\ PipelineIdle /\ ExportIdle

\* agent.prompt_claude_code
SpecAgent == InitAgent /\ [][AgentNext]_vars

InitPipeline ==
    ReviewIdle /\ StageIdle /\ DocIdle /\ PatchIdle /\ AgentIdle /\ PipelineInit /\ ExportIdle

\* the pipeline composers
SpecPipeline == InitPipeline /\ [][PipelineNext]_vars

InitExport ==
    ReviewIdle /\ StageIdle /\ DocIdle /\ PatchIdle /\ AgentIdle /\ PipelineIdle /\ ExportInit

ExportNext ==
    \/ Sanitize
    \/ SanitizeAgain

\* csv_exporter.sanitize_filename on every name
SpecExport == InitExport /\ [][ExportNext]_vars

InitStages ==
    \/ ReviewStart /\ DocIdle /\ PatchIdle /\ AgentIdle /\ PipelineIdle /\ ExportIdle
    \/ ReviewIdle /\ StageInit("adw_document") /\ DocInit /\ PatchIdle /\ AgentIdle
          /\ PipelineIdle /\ ExportIdle
    \/ ReviewIdle /\ StageInit("adw_patch") /\ DocIdle /\ PatchInit /\ AgentIdle
          /\ PipelineIdle /\ ExportIdle

NextStages ==
    \/ LoadState
    \/ CheckEnvVars
    \/ GetRepoUrl
    \/ CheckBranchName
    \/ CheckoutBranch
    \/ FindSpecFile
    \/ LoopHead
    \/ RunReview
    \/ CheckResult
    \/ StartPatch
    \/ ResolveIssue
    \/ ResolveReturn
    \/ CommitResolution
    \/ AfterLoop
    \/ FinalCommit
    \/ Finalize
    \/ SaveState
    \/ ExitByOutcome
    \/ DocLoadState
    \/ DocCheckEnvVars
    \/ DocCheckBranchName
    \/ DocCheckoutBranch
    \/ DocGenerate
    \/ DocGetRepoUrl
    \/ DocFetchIssue
    \/ DocCreateCommit
    \/ DocCommit
    \/ DocFinalize
    \/ DocFinish
    \/ DocFail
    \/ PatchEnsureAdwId
    \/ PatchCheckEnvVars
    \/ PatchGetRepoUrl
    \/ PatchBranch
    \/ PatchContent
    \/ PatchCreate
    \/ PatchSaveFile
    \/ PatchCheckImplement
    \/ PatchCreateCommit
    \/ PatchCommit
    \/ PatchFinalize

\* one stage script runs: adw_review, adw_document or adw_patch
SpecStages == InitStages /\ [][NextStages]_vars

\* ------------------------------------------------------------------------
\* Properties of adw_review.main (checked under Spec)
\* ------------------------------------------------------------------------
LoopEnded == loop_end # "none"

\* C1: without --skip-resolution, when every review fails with at least one
\* blocker and every resolution pass resolves at least one, run_review is
\* called exactly MAX_REVIEW_RETRY_ATTEMPTS times and the loop ends; the loop
\* never runs the review more often than that and main never gets stuck.
C1_RetryCeiling ==
    /\ review_runs <= MAX_REVIEW_RETRY_ATTEMPTS
    /\ (LoopEnded /\ ~skip_resolution /\ every_blocked /\ every_resolved)
          => (review_runs = MAX_REVIEW_RETRY_ATTEMPTS /\ attempt = MAX_REVIEW_RETRY_ATTEMPTS)
    /\ (pc # "exit") => ENABLED Next

C1_Witness ==
    /\ pc = "exit"
    /\ exit_by = "outcome"
    /\ ~skip_resolution
    /\ every_blocked
    /\ every_resolved
    /\ review_runs = MAX_REVIEW_RETRY_ATTEMPTS
    /\ resolve_passes = MAX_REVIEW_RETRY_ATTEMPTS - 1

\* the latest finished resolution pass resolved none of its blockers
LastPassResolvedNone ==
    resolve_passes > 0 /\ pc \notin {"resolve", "patching"} /\ resolved_count = 0

\* C2: once a resolution pass has resolved none of its N >= 1 blockers, main
\* is past the retry loop for good (the review is not run again although
\* attempts remain) and that pass made no resolution commit.
C2_NoProgressStops ==
    LastPassResolvedNone =>
        /\ pc \in PostLoop
        /\ loop_end = "no_progress"
        /\ attempt < max_attempts
        /\ review_runs = attempt
        /\ failed_count = BlockerCount(review_result)
        /\ failed_count >= 1
        /\ resolution_commits < resolve_passes

C2_Witness ==
    /\ pc = "exit"
    /\ exit_by = "outcome"
    /\ LastPassResolvedNone
    /\ failed_count = 2
    /\ attempt = 1

\* a review result with findings, none of them a blocker
OnlyNonBlockers(result) ==
    /\ ~result.none
    /\ Len(result.review_issues) > 0
    /\ BlockerCount(result) = 0

\* C3: while the latest review result has findings but no blocker, main is
\* never in resolve_review_issues, never commits a resolution and never
\* returns to the head of the loop, and the exit at the end of main is 0.
C3_NonBlockerPassThrough ==
    OnlyNonBlockers(review_result) =>
        /\ pc \in {"check"} \cup PostLoop
        /\ (exit_by = "outcome" => exit_code = 0)

C3_Witness ==
    /\ pc = "exit"
    /\ exit_by = "outcome"
    /\ exit_code = 0
    /\ ~review_result.success
    /\ OnlyNonBlockers(review_result)
    /\ attempt < max_attempts

\* C4 as stated: whenever the loop ends before the ceiling, the exit status
\* decided by the review outcome is success.
C4_FailureOnlyAtCeiling ==
    (exit_by = "outcome" /\ attempt < max_attempts) => exit_code = 0

\* C4 as amended: the exit status decided by the review outcome is failure
\* only if blockers remain and the loop ended at the ceiling or after a
\* resolution pass that resolved nothing; a loop that ends before the ceiling
\* for any other reason exits 0.
C4_FailureOnlyWithBlockersLeft ==
    exit_by = "outcome" =>
        /\ exit_code = 1 =>
              /\ BlockerCount(review_result) > 0
              /\ attempt = max_attempts \/ loop_end = "no_progress"
        /\ (attempt < max_attempts /\ loop_end # "no_progress") => exit_code = 0

C4_Witness ==
    /\ exit_by = "outcome"
    /\ exit_code = 1
    /\ loop_end = "no_progress"
    /\ attempt < max_attempts

\* C5: once a /review agent invocation has failed, the stage makes no further
\* agent invocation (no patch agent, no second review) and exits non-zero.
C5_FailedInvocationIsFatal ==
    calls_at_failure > 0 =>
        /\ review_runs + patch_calls = calls_at_failure
        /\ pc = "exit" => exit_code # 0

\* C13: once a commit_changes of the review stage has failed (for the
\* resolution changes or for the final review commit), the review is not run
\* again and the stage exits non-zero.
C13_CommitFailureIsFatal ==
    commit_failed_at > 0 =>
        /\ review_runs = commit_failed_at
        /\ pc = "exit" => exit_code # 0

\* review 1 failed with one blocker, pass 1 resolved it, review 2 passed
ResolvedOnFirstRetry ==
    /\ Len(review_log) >= 2
    /\ Len(pass_log) >= 1
    /\ review_log[1] = [success |-> FALSE, blockers |-> 1]
    /\ pass_log[1] = [resolved |-> 1, failed |-> 0]
    /\ review_log[2].success

C16_SkipResolution ==
    skip_resolution =>
        /\ review_runs <= 1
        /\ LoopEnded => review_runs = 1
        /\ resolve_passes = 0
        /\ patch_calls = 0
        /\ pc \notin {"resolve", "patching", "commit_resolution"}

C16_Witness ==
    /\ skip_resolution
    /\ pc = "exit"
    /\ exit_by = "outcome"
    /\ exit_code = 1
    /\ review_runs = 1
    /\ BlockerCount(review_result) = 2

\* the latest resolution pass has returned and review_result is still the
\* result it worked on
PassReturned == Len(pass_log) > 0 /\ Len(pass_log) = resolve_passes /\ review_runs = resolve_passes

\* the findings of the latest review that are blockers, by number
BlockerNumbers ==
    { review_result.review_issues[k].review_issue_number :
        k \in { j \in 1..Len(review_result.review_issues) :
                  IsBlocker(review_result.review_issues[j]) } }

\* C17: in a resolution pass every patch attempt, failed or not, counts once
\* and the pass goes on; on return each blocker of the review has been
\* attempted exactly once, resolved_count + failed_count is the number of
\* blockers, and no non-blocker finding has been attempted.
C17_PerFindingIndependence ==
    /\ pc \in {"resolve", "patching"} =>
          /\ resolved_count + failed_count = blocker_idx
          /\ Len(attempted) = blocker_idx + (IF pc = "patching" THEN 1 ELSE 0)
    /\ resolve_passes > 0 /\ review_runs = resolve_passes =>
          /\ \A k \in 1..Len(attempted) : attempted[k] \in BlockerNumbers
          /\ \A k, l \in 1..Len(attempted) : attempted[k] = attempted[l] => k = l
    /\ PassReturned =>
          /\ resolved_count + failed_count = BlockerCount(review_result)
          /\ { attempted[k] : k \in 1..Len(attempted) } = BlockerNumbers
          /\ pass_log[Len(pass_log)] = [resolved |-> resolved_count, failed |-> failed_count]

C17_Witness ==
    /\ PassReturned
    /\ resolved_count = 1
    /\ failed_count = 1
    /\ attempted = <<1, 2>>
    /\ pc = "commit_resolution"

\* the numbers of the blocker findings of the latest review, in the order
\* the review emitted them
EmittedBlockers ==
    LET blockers == SelectSeq(review_result.review_issues, IsBlocker)
    IN  [k \in 1..Len(blockers) |-> blockers[k].review_issue_number]

\* C18: within a pass the blockers are patched in the order the review
\* emitted them, and a patch is started only when every earlier patch
\* attempt of the pass has finished.
C18_PatchedInEmittedOrder ==
    resolve_passes > 0 /\ review_runs = resolve_passes =>
        /\ Len(attempted) <= Len(EmittedBlockers)
        /\ attempted = SubSeq(EmittedBlockers, 1, Len(attempted))
        /\ pc = "patching" =>
              /\ patching = attempted[Len(attempted)]
              /\ resolved_count + failed_count = Len(attempted) - 1
        /\ pc # "patching" => (patching = 0 /\ resolved_count + failed_count = Len(attempted))

C18_Witness ==
    /\ pc = "patching"
    /\ Len(review_result.review_issues) = 2
    /\ attempted = <<1, 2>>
    /\ patching = 2
    /\ failed_count = 1

\* ------------------------------------------------------------------------
\* Properties of agent.prompt_claude_code (checked under SpecAgent)
\* ------------------------------------------------------------------------
\* C6: prompt_claude_code always gets on: while the agent process runs,
\* either the process exits or a timeout ends the wait, so a process that
\* never exits still leads to a return.
C6_TimeoutEndsTheWait ==
    ag_pc = "running" => ENABLED AgentNext

\* C7: when the process exited 0 and its output holds no "result" record, the
\* response is a failure.
C7_NoResultRecordIsFailure ==
    (ag_pc = "returned" /\ launched /\ proc.returncode = "zero"
        /\ \A i \in 1..Len(proc.lines) : proc.lines[i].type # "result")
        => ~response.success

\* C8: a failed installation check or a non-zero exit gives success=false
\* without session id; success=true needs a passed check and exit 0; after a
\* failed check no prompt file and no output file is written and no process
\* is launched.
C8_FailureResponses ==
    /\ (ag_pc = "returned"
          /\ (InstallError(install_check) \/ (launched /\ proc.returncode # "zero")))
          => (~response.success /\ response.session_id = NoSession)
    /\ (ag_pc = "returned" /\ response.success)
          => (install_check = "ok" /\ launched /\ proc.returncode = "zero")
    /\ install_check \in {"nonzero", "not_found", "os_error"}
          => (~launched /\ ~prompt_saved /\ ~output_written /\ proc = NoProc)

C8_Witness ==
    /\ ag_pc = "returned"
    /\ launched
    /\ proc.returncode = "nonzero"
    /\ \E i \in 1..Len(proc.lines) :
          proc.lines[i] = Message("result", "success", FALSE, "s1")
    /\ ~response.success

\* C14: the env of the agent process holds only the variables get_claude_env
\* names, so it is the same for any two parent environments that agree on
\* those.
C14_ScopedEnvironment ==
    ag_pc \in {"running", "returned"} /\ output_written =>
        /\ \A n \in EnvNames \ NamedVariables : child_env[n] = Unset
        /\ \A e \in ParentEnvs :
              (\A n \in NamedVariables : e[n] = parent_env[n]) => GetClaudeEnv(e) = child_env

Transition(from, to) == <<from, to>>

\* the transitions C10 names
ClaimedTransitions ==
    { Transition("UNINITIALIZED", "PLANNED"), Transition("PLANNED", "BUILT"),
      Transition("BUILT", "TESTED"), Transition("TESTED", "REVIEWED"),
      Transition("REVIEWED", "DOCUMENTED"), Transition("BUILT", "REVIEWED") }

TransitionAfterExitZero ==
    /\ last_transition.code = 0
    /\ last_transition.to = ProgressAfter(last_transition.stage)

C19_SequentialComposition ==
    /\ Len(launches) <= Len(Stages(variant))
    /\ launches = SubSeq(Stages(variant), 1, Len(launches))
    /\ (variant = "adw_sdlc" /\ composer_exit = 0)
          => launches = <<"plan", "build", "test", "review", "document">>
    /\ running # "none" =>
          /\ running = launches[Len(launches)]
          /\ stage_idx = Len(launches)
          /\ composer_exit = NotExited
    /\ (running = "none" /\ stage_idx > 0 /\ composer_exit # 1) => stage_idx = Len(launches) + 1
    /\ Len(launch_ids) = Len(launches)
    /\ launches # <<>> => adw_id = EnsureAdwId_Result(adw_id_arg)
    /\ \A k \in 1..Len(launch_ids) : launch_ids[k] = adw_id

C19_Witness ==
    /\ variant = "adw_sdlc"
    /\ ~adw_id_arg
    /\ composer_exit = 0
    /\ launches = <<"plan", "build", "test", "review", "document">>
    /\ launch_ids = <<"new_id", "new_id", "new_id", "new_id", "new_id">>

\* ------------------------------------------------------------------------
\* Properties of the stage scripts (checked under SpecStages)
\* ------------------------------------------------------------------------
\* a downstream stage runs for an adw_id that has no state file
MissingState == script \in {"adw_review", "adw_document"} /\ ~disk.exists

MissingStateExitsAtOnce ==
    MissingState =>
        /\ effects = {}
        /\ state = NoState
        /\ script = "adw_review" =>
              /\ pc \in {"load_state", "exit"}
              /\ pc = "exit" => (exit_code = 1 /\ exit_by = "no_state")
        /\ script = "adw_document" =>
              /\ doc_pc \in {"load_state", "exit"}
              /\ doc_pc = "exit" => (doc_exit = 1 /\ doc_exit_by = "no_state")

\* C11: adw_review and adw_document, run for an adw_id without state file,
\* exit 1 right after ADWState.load, having posted no comment, invoked no
\* agent, run no git operation and saved no state; no state file comes into
\* being.
C11_MissingStateIsFatal ==
    /\ []MissingStateExitsAtOnce
    /\ [][MissingState => ~disk'.exists]_vars

C11_Witness ==
    /\ script = "adw_review"
    /\ ~disk.exists
    /\ pc = "exit"
    /\ exit_code = 1
    /\ exit_by = "no_state"

\* C12: once adw_document has a documentation_path, or adw_patch a patch_file,
\* from the agent, the field is in the state file before the commit message
\* is created, so every exit at the commit message, the commit or the push
\* is non-zero with the field on disk.
C12_OutputSavedBeforeCommit ==
    /\ (script = "adw_document" /\ Truthy(doc_result.documentation_path)
          /\ doc_pc \in {"create_commit", "commit", "finalize", "exit"})
          => /\ disk.documentation_path = doc_result.documentation_path
             /\ doc_exit_by \in {"commit_message", "commit"} => doc_exit = 1
    /\ (script = "adw_patch" /\ Truthy(patch_file)
          /\ patch_pc \in {"create_commit", "commit", "finalize", "exit"})
          => /\ disk.patch_file = patch_file
             /\ patch_exit_by \in {"commit_message", "commit"} => patch_exit = 1

\* a downstream stage runs on a state file without branch_name
NoBranchName ==
    /\ script \in {"adw_review", "adw_document"}
    /\ disk.exists
    /\ disk.branch_name \in {Missing, Empty}

\* C20: on a state whose branch_name is missing or empty, adw_review and
\* adw_document get no further than the branch_name check, where they post
\* an error comment and exit 1: no checkout, no agent invocation, no commit,
\* no push, no state save, and branch_name is left as it was loaded.
C20_MissingBranchNameIsFatal ==
    NoBranchName =>
        /\ effects \subseteq {"comment", "error_comment"}
        /\ state \in {NoState, disk}
        /\ script = "adw_review" =>
              /\ pc \in {"load_state", "check_env", "repo_url", "branch_name", "exit"}
              /\ pc = "exit" => (exit_code = 1 /\ exit_by \in {"env", "repo_url", "no_branch"})
              /\ exit_by = "no_branch" => "error_comment" \in effects
        /\ script = "adw_document" =>
              /\ doc_pc \in {"load_state", "check_env", "branch_name", "exit"}
              /\ doc_pc = "exit" => (doc_exit = 1 /\ doc_exit_by \in {"env", "no_branch"})
              /\ doc_exit_by = "no_branch" => "error_comment" \in effects

C20_Witness ==
    /\ script = "adw_document"
    /\ disk.exists
    /\ disk.branch_name = Empty
    /\ doc_pc = "exit"
    /\ doc_exit = 1
    /\ doc_exit_by = "no_branch"
    /\ effects = {"comment", "error_comment"}

\* ------------------------------------------------------------------------
\* C21: when the /document invocation fails, adw_document saves the state
\* as it loaded it (no documentation_path added), commits nothing, pushes
\* nothing, invokes no further agent, and exits 1.
\* ------------------------------------------------------------------------
\* adw_document has ended and its one /document invocation failed
DocumentInvocationFailed ==
    /\ script = "adw_document"
    /\ doc_pc = "exit"
    /\ doc_agent_calls >= 1
    /\ ~doc_result.success

C21_DocumentFailureSavesAndExits ==
    DocumentInvocationFailed =>
        /\ doc_exit = 1
        /\ "save" \in effects
        /\ disk = disk0
        /\ disk.documentation_path = disk0.documentation_path
        /\ "commit" \notin effects
        /\ "push" \notin effects
        /\ doc_agent_calls = 1

C21_Witness ==
    /\ DocumentInvocationFailed
    /\ doc_exit = 1
    /\ doc_exit_by = "generation_failed"
    /\ "save" \in effects

\* ------------------------------------------------------------------------
\* C27: in every run of the retry loop run_review is called between 1 and
\* max_attempts times (3, or 1 with --skip-resolution), at most
\* max_attempts - 1 resolution passes are made, no pass starts after the
\* last permitted review, and every pass that resolved at least one blocker
\* is followed by another review.
\* ------------------------------------------------------------------------
\* the ceiling as the claim states it
ClaimedMaxAttempts == IF skip_resolution THEN 1 ELSE 3

\* a resolution pass is under way
InResolutionPass == pc \in {"resolve", "patching", "commit_resolution"}

C27_LoopCounts ==
    /\ review_runs <= ClaimedMaxAttempts
    /\ resolve_passes <= ClaimedMaxAttempts - 1
    /\ LoopEnded => review_runs >= 1
    /\ InResolutionPass => (review_runs < ClaimedMaxAttempts /\ resolve_passes = review_runs)
    /\ LoopEnded =>
          \A i \in 1..Len(pass_log) : pass_log[i].resolved > 0 => review_runs > i

C27_Witness ==
    /\ LoopEnded
    /\ ~skip_resolution
    /\ review_runs = 3
    /\ resolve_passes = 2
    /\ Len(pass_log) = 2
    /\ pass_log[2].resolved > 0

\* ------------------------------------------------------------------------
\* C28: when the final commit message and commit succeed, adw_review exits
\* non-zero exactly when the last review result has success = false and at
\* least one blocker, however the loop ended.
\* ------------------------------------------------------------------------
\* the last review run, as logged when run_review returned
LastReview == review_log[Len(review_log)]

C28_ExitFollowsLastReview ==
    (exit_by = "outcome" /\ final_log = <<"commit", "push", "save">>) =>
        /\ exit_code \in {0, 1}
        /\ exit_code = 1 <=> (~LastReview.success /\ LastReview.blockers > 0)

C28_Witness ==
    /\ exit_by = "outcome"
    /\ exit_code = 0
    /\ ~LastReview.success
    /\ LastReview.blockers = 0
    /\ loop_end = "stop"
    /\ review_runs = 2

\* ------------------------------------------------------------------------
\* C29
\* ------------------------------------------------------------------------
\* main has ended after a loop whose last review failed with blockers
ExitedWithBlockers ==
    /\ pc = "exit"
    /\ LoopEnded
    /\ ~LastReview.success
    /\ LastReview.blockers > 0

\* C29 as stated: when the loop ends with blockers remaining, the stage
\* makes the final commit, pushes and saves the state, in that order, and
\* then exits non-zero.
C29_AlwaysCommitPushSave ==
    ExitedWithBlockers =>
        /\ exit_code = 1
        /\ final_log = <<"commit", "push", "save">>

\* C29 as amended: when the loop ends with blockers remaining the stage exits
\* non-zero; if the final commit message and the commit succeed it has made
\* the commit, the push and the state save in that order before that exit,
\* otherwise it exits at the failed step without push and without the final
\* save. The exit decided by the remaining blockers always comes after the
\* state save.
C29_CommitPushSaveUnlessCommitFails ==
    /\ ExitedWithBlockers =>
          /\ exit_code = 1
          /\ exit_by \in {"outcome", "commit_message", "commit"}
          /\ exit_by = "outcome" => final_log = <<"commit", "push", "save">>
          /\ exit_by # "outcome" => final_log = <<>>
    /\ (exit_by = "outcome" /\ exit_code = 1) =>
          /\ final_log = <<"commit", "push", "save">>
          /\ disk = state

C29_Witness ==
    /\ ExitedWithBlockers
    /\ exit_by = "outcome"
    /\ exit_code = 1
    /\ final_log = <<"commit", "push", "save">>
    /\ loop_end = "stop"

\* ------------------------------------------------------------------------
\* C23: run_review never raises; every call returns a well-formed
\* ReviewResult, and after a failed agent invocation the result is
\* success = false with exactly one finding, number 1, of severity blocker.
\* ------------------------------------------------------------------------
WellFormedReviewResult(r) ==
    /\ ~r.none
    /\ r.success \in BOOLEAN
    /\ \A k \in 1..Len(r.review_issues) : r.review_issues[k].issue_severity \in Severity

SynthesizedFailure == ReviewResult(FALSE, <<ReviewIssue(1, "blocker")>>)

C23_RunReviewAlwaysReturns ==
    /\ exit_by # "exception"
    /\ pc = "check" =>
          /\ WellFormedReviewResult(review_result)
          /\ ~agent_ok => review_result = SynthesizedFailure

\* ------------------------------------------------------------------------
\* C30: after any number of review attempts of one adw_review run, the
\* persisted review_screenshots is the screenshot_urls list of the latest
\* attempt whose list was non-empty; while no attempt has had one it is the
\* value the run found on disk. Each non-empty list is saved at once.
\* ------------------------------------------------------------------------
PersistedScreenshots == disk.review_screenshots

C30_LatestNonEmptyScreenshots ==
    (script = "adw_review" /\ pc # "load_state") =>
        /\ PersistedScreenshots =
              IF last_urls = NoUrls THEN disk0.review_screenshots ELSE last_urls
        /\ state.review_screenshots = PersistedScreenshots

\* the first review saved its list and the second, just returned, had none
C30_Witness ==
    /\ script = "adw_review"
    /\ review_runs = 2
    /\ pc = "check"
    /\ last_urls = "urls_1"
    /\ PersistedScreenshots = "urls_1"

\* ------------------------------------------------------------------------
\* C22: a stage writes only the state keys it owns (review:
\* review_screenshots; document: documentation_path; patch: patch_file and
\* branch_name) and leaves every other key as loaded from disk; a stage that
\* exits 0 has saved everything it wrote, so the next stage of the adw_id loads
\* exactly those fields (document reads the review_screenshots review saved).
\* ------------------------------------------------------------------------
StateKeys == {"branch_name", "review_screenshots", "documentation_path", "patch_file"}

OwnedKeys(s) ==
    CASE s = "adw_review" -> {"review_screenshots"}
      [] s = "adw_document" -> {"documentation_path"}
      [] s = "adw_patch" -> {"patch_file", "branch_name"}
      [] OTHER -> {}

\* the stage script has loaded the state
StateLoaded == state.exists

\* the stage script has exited 0
StageSucceeded ==
    \/ script = "adw_review" /\ pc = "exit" /\ exit_code = 0
    \/ script = "adw_document" /\ doc_pc = "exit" /\ doc_exit = 0
    \/ script = "adw_patch" /\ patch_pc = "exit" /\ patch_exit = 0

ResultRecords(lines) ==
    { i \in 1..Len(lines) : lines[i].kind = "message" /\ lines[i].type = "result" }

\* the record the claim names
LastResultRecord(lines) ==
    IF ResultRecords(lines) = {} THEN NoMessage
    ELSE lines[CHOOSE i \in ResultRecords(lines) : \A j \in ResultRecords(lines) : j <= i]

C24_LastResultRecordSelected ==
    ParseJsonlOutput(proc.lines) = LastResultRecord(proc.lines)

\* ------------------------------------------------------------------------
\* C25: adw_patch takes its change request from the latest comment that
\* contains 'adw_patch' whenever there is one, also when the issue body
\* contains the keyword; otherwise from the title and body of an issue whose
\* body contains it; with the keyword nowhere it exits non-zero without
\* invoking the patch planner or implementor and without committing.
\* ------------------------------------------------------------------------
\* get_patch_content has run
PatchContentDone ==
    /\ script = "adw_patch"
    /\ patch_pc \notin {"ensure_adw_id", "check_env", "repo_url", "branch", "patch_content"}
    /\ patch_exit_by \notin {"env", "repo_url", "branch"}

\* the comments of the issue that contain the keyword
KeywordComments == { i \in 1..Len(patch_issue.comments) : patch_issue.comments[i] }

C25_PatchContentSelection ==
    PatchContentDone =>
        /\ KeywordComments # {} =>
              /\ change_request.source = "comment"
              /\ change_request.comment \in KeywordComments
              /\ \A i \in KeywordComments : i <= change_request.comment
        /\ (KeywordComments = {} /\ patch_issue.body_has_keyword) =>
              change_request.source = "issue"
        /\ (KeywordComments = {} /\ ~patch_issue.body_has_keyword) =>
              /\ patch_pc = "exit"
              /\ patch_exit = 1
              /\ patch_exit_by = "no_keyword"
              /\ patch_file = Missing
              /\ "agent" \notin effects
              /\ "commit" \notin effects

\* body and two comments contain the keyword: the second comment is used
C25_Witness ==
    /\ PatchContentDone
    /\ patch_issue.body_has_keyword
    /\ KeywordComments = {1, 2}
    /\ change_request = Request("comment", 2)
    /\ patch_exit = 0

\* ------------------------------------------------------------------------
\* C26: for every name, sanitize_filename(name) is non-empty, at most 255
\* characters long, has none of < > : " / \ | ? * and no control character,
\* has no leading or trailing space or dot, is 'export' when the name
\* sanitizes to nothing or to underscores only, and is left unchanged by a
\* second sanitize_filename.
\* ------------------------------------------------------------------------
FirstChar(n) == IF n.pad > 0 THEN "a" ELSE n.tail[1]
LastChar(n) == IF n.tail # <<>> THEN n.tail[Len(n.tail)] ELSE "a"

C26_SanitizedFilename ==
    /\ export_pc \in {"sanitized", "resanitized"} =>
          /\ Length(sanitized) > 0
          /\ Length(sanitized) <= 255
          /\ \A i \in 1..Len(sanitized.tail) : sanitized.tail[i] \notin InvalidChars
          /\ FirstChar(sanitized) \notin {".", " "}
          /\ LastChar(sanitized) \notin {".", " "}
          /\ EmptyOrUnderscores(Strip(ReplaceInvalid(file_name))) => sanitized = Export
    /\ export_pc = "resanitized" => resanitized = sanitized

====
